---- MODULE Spec2Model ----
(***************************************************************************)
(* A model of the noisy_float crate: the NoisyFloat<F, C> wrapper of       *)
(* src/lib.rs, its FloatChecker contract, the serde and rand adapters, and *)
(* the operator/ordering/hash implementations the wrapper is used with.    *)
(*                                                                         *)
(* The native float type F is modelled as a binary floating point format   *)
(* with one sign bit, ExpBits exponent bits and ManBits fraction bits,     *)
(* with IEEE 754 semantics: signed zeros, subnormals, infinities, NaNs and *)
(* round-to-nearest-even.  A float is its bit pattern (what to_bits        *)
(* returns), so that hashing and bit-exact round trips are real.           *)
(***************************************************************************)
EXTENDS Integers, Naturals, Sequences, FiniteSets, TLC

\* ------------------------------------------------------------------------
\* The float format
\* ------------------------------------------------------------------------

\* Number of fraction bits of the modelled float type.
ManBits == 3

\* Number of exponent bits of the modelled float type.
ExpBits == 4

Bias == 2^(ExpBits - 1) - 1

\* The all-ones exponent field: infinities and NaNs.
ExpMax == 2^ExpBits - 1

ManSize == 2^ManBits

MagSize == 2^(ExpBits + ManBits)

\* Every bit pattern of the float type.
Floats == 0 .. (2 * MagSize - 1)

\* The exponent of the unit of a subnormal (and of the smallest normal).
MinExp2 == 1 - Bias - ManBits

SignOf(v) == v \div MagSize

MagOf(v) == v % MagSize

ExpOf(v) == MagOf(v) \div ManSize

ManOf(v) == v % ManSize

Pack(s, e, m) == s * MagSize + e * ManSize + m

PosInf == Pack(0, ExpMax, 0)

NegInf == Pack(1, ExpMax, 0)

\* The NaN the arithmetic operations produce.
QNaN == Pack(0, ExpMax, 2^(ManBits - 1))

PosZero == Pack(0, 0, 0)

NegZero == Pack(1, 0, 0)

MaxFinite == Pack(0, ExpMax - 1, ManSize - 1)

MinSubnormal == Pack(0, 0, 1)

One == Pack(0, Bias, 0)

is_nan(v) == ExpOf(v) = ExpMax /\ ManOf(v) # 0

is_infinite(v) == ExpOf(v) = ExpMax /\ ManOf(v) = 0

is_finite(v) == ExpOf(v) # ExpMax

IsZero(v) == MagOf(v) = 0

\* The raw bit pattern of a float (a transmute: the float is its pattern).
to_bits(v) == v

\* A finite float is Mant(v) * 2^Exp2(v), negated when SignOf(v) = 1.
Mant(v) == IF ExpOf(v) = 0 THEN ManOf(v) ELSE ManSize + ManOf(v)

Exp2(v) == (IF ExpOf(v) = 0 THEN 1 ELSE ExpOf(v)) - Bias - ManBits

\* The position of the highest set bit of m > 0 (0 for m = 1).
RECURSIVE Msb(_)
Msb(m) == IF m <= 1 THEN 0 ELSE 1 + Msb(m \div 2)

\* The float of sign s, significand mant and unit exponent q, mant already
\* rounded to at most ManBits + 1 bits: subnormal, infinite on overflow, or
\* normal.
PackRounded(s, mant, q) ==
    IF mant < ManSize THEN Pack(s, 0, mant)
    ELSE IF q + ManBits + Bias >= ExpMax THEN Pack(s, ExpMax, 0)
    ELSE Pack(s, q + ManBits + Bias, mant - ManSize)

\* A significand that rounding carried to 2^(ManBits + 1) is 2^ManBits at the
\* next exponent.
Renormalize(s, mant1, q) ==
    IF mant1 = 2 * ManSize THEN PackRounded(s, ManSize, q + 1)
    ELSE PackRounded(s, mant1, q)

\* Round to nearest, ties to even: mant0 units of 2^q plus rem out of 2 * half.
RoundNearestEven(s, mant0, rem, half, sticky, q) ==
    IF rem > half \/ (rem = half /\ (sticky \/ mant0 % 2 = 1))
    THEN Renormalize(s, mant0 + 1, q)
    ELSE Renormalize(s, mant0, q)

\* m * 2^e brought to the unit 2^q, q = e + shift.
ShiftRound(s, m, sticky, q, shift, p) ==
    IF shift > p + 2 THEN Pack(s, 0, 0)
    ELSE IF shift <= 0 THEN RoundNearestEven(s, m * 2^(0 - shift), 0, 1, sticky, q)
    ELSE RoundNearestEven(s, m \div 2^shift, m % 2^shift, 2^(shift - 1), sticky, q)

\* The unit of the result: ManBits below the highest bit p of m, but no
\* lower than the subnormal unit.
RoundFrom(s, m, e, sticky, p) ==
    IF e + p - ManBits > MinExp2
    THEN ShiftRound(s, m, sticky, e + p - ManBits, p - ManBits, p)
    ELSE ShiftRound(s, m, sticky, MinExp2, MinExp2 - e, p)

\* Round sign * m * 2^e (plus, when sticky, a nonzero amount below one unit
\* of m) to the nearest float, ties to even; overflow gives an infinity.
\* With sticky, m carries at least ManBits + 3 significant bits.
RoundPack(s, m, e, sticky) ==
    IF m = 0 THEN Pack(s, 0, 0) ELSE RoundFrom(s, m, e, sticky, Msb(m))

\* The float of a small natural number.
FromNat(n) == RoundPack(0, n, 0, FALSE)

\* Native comparison: NaN is unordered, the two zeros are equal.
Key(v) == IF SignOf(v) = 0 THEN MagOf(v) ELSE 0 - MagOf(v)

FEq(x, y) == ~is_nan(x) /\ ~is_nan(y) /\ Key(x) = Key(y)

FLt(x, y) == ~is_nan(x) /\ ~is_nan(y) /\ Key(x) < Key(y)

FLe(x, y) == ~is_nan(x) /\ ~is_nan(y) /\ Key(x) <= Key(y)

FNeg(x) == Pack(1 - SignOf(x), ExpOf(x), ManOf(x))

FAbs(x) == MagOf(x)

\* x + y for finite x, y with |x| >= |y|.
AddOrdered(x, y) ==
    LET d == Exp2(x) - Exp2(y)
    IN  IF IsZero(y) THEN (IF IsZero(x) /\ SignOf(x) # SignOf(y) THEN PosZero ELSE x)
        ELSE IF d >= ManBits + 4 THEN x
        ELSE IF SignOf(x) = SignOf(y)
             THEN RoundPack(SignOf(x), Mant(x) * 2^d + Mant(y), Exp2(y), FALSE)
        ELSE IF Mant(x) * 2^d = Mant(y) THEN PosZero
        ELSE RoundPack(SignOf(x), Mant(x) * 2^d - Mant(y), Exp2(y), FALSE)

FAdd(x, y) ==
    IF is_nan(x) \/ is_nan(y) THEN QNaN
    ELSE IF is_infinite(x)
         THEN (IF is_infinite(y) /\ SignOf(x) # SignOf(y) THEN QNaN ELSE x)
    ELSE IF is_infinite(y) THEN y
    ELSE IF MagOf(x) >= MagOf(y) THEN AddOrdered(x, y)
    ELSE AddOrdered(y, x)

FSub(x, y) == IF is_nan(x) \/ is_nan(y) THEN QNaN ELSE FAdd(x, FNeg(y))

FMul(x, y) ==
    LET s == (SignOf(x) + SignOf(y)) % 2
    IN  IF is_nan(x) \/ is_nan(y) THEN QNaN
        ELSE IF is_infinite(x) \/ is_infinite(y)
             THEN (IF IsZero(x) \/ IsZero(y) THEN QNaN ELSE Pack(s, ExpMax, 0))
        ELSE RoundPack(s, Mant(x) * Mant(y), Exp2(x) + Exp2(y), FALSE)

\* Extra quotient bits kept by the division before rounding.
DivShift == 2 * ManBits + 3

FDiv(x, y) ==
    LET s == (SignOf(x) + SignOf(y)) % 2
    IN  IF is_nan(x) \/ is_nan(y) THEN QNaN
        ELSE IF is_infinite(x)
             THEN (IF is_infinite(y) THEN QNaN ELSE Pack(s, ExpMax, 0))
        ELSE IF is_infinite(y) THEN Pack(s, 0, 0)
        ELSE IF IsZero(y)
             THEN (IF IsZero(x) THEN QNaN ELSE Pack(s, ExpMax, 0))
        ELSE IF IsZero(x) THEN Pack(s, 0, 0)
        ELSE LET n == Mant(x) * 2^DivShift
             IN  RoundPack(s, n \div Mant(y), Exp2(x) - Exp2(y) - DivShift,
                           n % Mant(y) # 0)

\* (2^d) mod n.
RECURSIVE PowMod(_, _)
PowMod(d, n) == IF d = 0 THEN 1 % n ELSE (2 * PowMod(d - 1, n)) % n

\* The remainder of the truncated division (fmod): exact, with the sign of x.
FRem(x, y) ==
    IF is_nan(x) \/ is_nan(y) \/ is_infinite(x) \/ IsZero(y) THEN QNaN
    ELSE IF is_infinite(y) \/ IsZero(x) THEN x
    ELSE LET d == Exp2(x) - Exp2(y)
         IN  IF d >= 0
             THEN RoundPack(SignOf(x),
                            ((Mant(x) % Mant(y)) * PowMod(d, Mant(y))) % Mant(y),
                            Exp2(y), FALSE)
             ELSE IF 0 - d > ManBits + 1 THEN x
             ELSE RoundPack(SignOf(x), Mant(x) % (Mant(y) * 2^(0 - d)),
                            Exp2(x), FALSE)

\* The narrower float type (f32 beside f64): one exponent bit and one
\* fraction bit fewer.  Widening it is exact.
ManBits32 == ManBits - 1

ExpBits32 == ExpBits - 1

Floats32 == 0 .. (2^(1 + ExpBits32 + ManBits32) - 1)

Widen(v) ==
    LET s    == v \div 2^(ExpBits32 + ManBits32)
        e    == (v \div 2^ManBits32) % 2^ExpBits32
        m    == v % 2^ManBits32
        bias == 2^(ExpBits32 - 1) - 1
    IN  IF e = 2^ExpBits32 - 1
        THEN Pack(s, ExpMax, m * 2^(ManBits - ManBits32))
        ELSE RoundPack(s, IF e = 0 THEN m ELSE 2^ManBits32 + m,
                       (IF e = 0 THEN 1 ELSE e) - bias - ManBits32, FALSE)

\* ------------------------------------------------------------------------
\* FloatChecker: the validity policies
\* ------------------------------------------------------------------------

\* NumChecker: every value but NaN.
NumChecker_check(value) == ~is_nan(value)

\* A finiteness test that lets the infinities through.
FiniteChecker_check_nan_only(value) == ~is_nan(value)

\* FiniteChecker: neither NaN nor an infinity.
FiniteChecker_check(value) == is_finite(value)

\* A user-defined checker, as the trait invites: the finite whole numbers.
WholeChecker_check(value) == is_finite(value) /\ IsZero(FRem(value, One))

\* A checker is its criteria and whether its assert is assert! (always) or
\* debug_assert! (only with debug assertions compiled in).  The standard
\* types use debug_assert!; the user-defined checker uses assert!.
NumChecker == [kind |-> "NumChecker", always |-> FALSE]

FiniteChecker == [kind |-> "FiniteChecker", always |-> FALSE]

WholeChecker == [kind |-> "WholeChecker", always |-> TRUE]

Checkers == {NumChecker, FiniteChecker, WholeChecker}

check(C, value) ==
    CASE C.kind = "NumChecker"    -> NumChecker_check(value)
      [] C.kind = "FiniteChecker" -> FiniteChecker_check(value)
      [] C.kind = "WholeChecker"  -> WholeChecker_check(value)

\* An assert that is compiled into every build.
assert_panics_always(C, dbg, value) == ~check(C, value)

\* Whether C::assert(value) panics in a build with debug assertions = dbg.
assert_panics(C, dbg, value) == (C.always \/ dbg) /\ ~check(C, value)

\* ------------------------------------------------------------------------
\* NoisyFloat
\* ------------------------------------------------------------------------

None == <<>>

Some(w) == <<w>>

Panic == [tag |-> "panic"]

Ok(w) == [tag |-> "ok", w |-> w]

Err == [tag |-> "err"]

\* A wrapper that stores the magnitude only.
unchecked_new_abs(value) == [value |-> FAbs(value)]

unchecked_new(value) == [value |-> value]

\* A constructor that forgets the assert.
new_no_assert(C, dbg, value) == Ok([value |-> value])

new(C, dbg, value) ==
    IF assert_panics(C, dbg, value) THEN Panic ELSE Ok(unchecked_new(value))

\* A try_new that forgets the check.
try_new_unchecked(C, value) == Some([value |-> value])

try_new(C, value) ==
    IF check(C, value) THEN Some([value |-> value]) ELSE None

\* TryFrom<F> for NoisyFloat: try_new, with an error in place of None.
try_from(C, value) ==
    IF try_new(C, value) = None THEN Err ELSE Ok(try_new(C, value)[1])

\* Storage: the float variable v a reference is taken to, and a temporary.
\* A reference (&F, &NoisyFloat) is the address of what it points at, and
\* memory maps an address to the float stored there.
Addrs == {"v", "tmp"}

\* Memory with the float x in every place.
Holding(x) == [p \in Addrs |-> x]

\* The wrapper found at an address: repr(transparent), it is the float there.
deref(m, ptr) == [value |-> m[ptr]]

\* The reference cast: the same address, seen as a wrapper.
unchecked_borrowed(value) == value

borrowed(C, dbg, m, value) ==
    IF assert_panics(C, dbg, m[value]) THEN Panic ELSE Ok(unchecked_borrowed(value))

try_borrowed(C, m, value) ==
    IF check(C, m[value]) THEN Some(unchecked_borrowed(value)) ELSE None

\* A cast that hands out the address of a copy.
unchecked_borrowed_mut_copy(value) == "tmp"

unchecked_borrowed_mut(value) == value

borrowed_mut(C, dbg, m, value) ==
    IF assert_panics(C, dbg, m[value]) THEN Panic ELSE Ok(unchecked_borrowed_mut(value))

try_borrowed_mut(C, m, value) ==
    IF check(C, m[value]) THEN Some(unchecked_borrowed_mut(value)) ELSE None

from_f32(C, dbg, value) == new(C, dbg, Widen(value))

from_f64(C, dbg, value) == new(C, dbg, value)

raw(self) == self.value

default(C, dbg) == new(C, dbg, PosZero)

\* Ord::min and Ord::max of the standard library, over the wrapper's cmp.
cmp(self, other) ==
    IF FLt(self.value, other.value) THEN "Less"
    ELSE IF FEq(self.value, other.value) THEN "Equal"
    ELSE "Greater"

eq(self, other) == FEq(self.value, other.value)

lt(self, other) == FLt(self.value, other.value)

le(self, other) == FLe(self.value, other.value)

Ord_min(self, other) == IF cmp(self, other) = "Greater" THEN other ELSE self

Ord_max(self, other) == IF cmp(self, other) = "Greater" THEN self ELSE other

\* A min that picks the other end.
min_as_max(self, other) == Ord_max(self, other)

min(self, other) == Ord_min(self, other)

max(self, other) == Ord_max(self, other)

\* The bytes a hasher is fed for an unsigned integer: little endian.
HashWidth == (1 + ExpBits + ManBits + 7) \div 8

Bytes(n) == [i \in 1 .. HashWidth |-> (n \div 256^(i - 1)) % 256]

\* A hash of the bit pattern as it is.
hash_raw_bits(self) == Bytes(to_bits(self.value))

hash(self) ==
    LET bits == IF FEq(self.value, PosZero) THEN 0 ELSE to_bits(self.value)
    IN  Bytes(bits)

\* The arithmetic operators: the native operation, then the constructor.
ArithOps == {"add", "sub", "mul", "div", "rem"}

native(op, x, y) ==
    CASE op = "add" -> FAdd(x, y)
      [] op = "sub" -> FSub(x, y)
      [] op = "mul" -> FMul(x, y)
      [] op = "div" -> FDiv(x, y)
      [] op = "rem" -> FRem(x, y)

\* An operator that returns the native result unchecked.
arith_unchecked(C, dbg, op, self, rhs) ==
    Ok([value |-> native(op, self.value, rhs.value)])

arith(C, dbg, op, self, rhs) == new(C, dbg, native(op, self.value, rhs.value))

neg(C, dbg, self) == new(C, dbg, FNeg(self.value))

\* From<NoisyFloat> for the native float.
into_float(self) == self.value

\* ------------------------------------------------------------------------
\* serde
\* ------------------------------------------------------------------------

\* What a data format carries: a float, or something that is no number.
FloatToken(v) == [t |-> "float", v |-> v]

UnitToken == [t |-> "unit", v |-> 0]

serialize(self) == FloatToken(self.value)

\* A decoder that wraps what it read without the constructor.
deserialize_unchecked(C, dbg, tok) ==
    IF tok.t # "float" THEN Err ELSE Ok([value |-> tok.v])

deserialize(C, dbg, tok) ==
    IF tok.t # "float" THEN Err ELSE new(C, dbg, tok.v)

\* ------------------------------------------------------------------------
\* rand: UniformFloat and the UniformMyF32 / UniformMyF64 adapters
\* ------------------------------------------------------------------------

\* The largest value of the unit-interval generator: 1.11..1b - 1.0.
max_rand == FSub(Pack(0, Bias, ManSize - 1), One)

RECURSIVE ScaleLoop(_, _, _)
ScaleLoop(low, high, scale) ==
    IF scale > 0 /\ FLe(high, FAdd(FMul(scale, max_rand), low))
    THEN ScaleLoop(low, high, scale - 1)
    ELSE scale

\* UniformFloat::new.  strict: the release of rand that refuses a range
\* whose width overflows, instead of shrinking the scale.
UniformFloat_new(low, high, strict) ==
    IF ~FLt(low, high) THEN Panic
    ELSE IF ~(is_finite(low) /\ is_finite(high)) THEN Panic
    ELSE IF strict /\ ~is_finite(FSub(high, low)) THEN Panic
    ELSE Ok([low |-> low, scale |-> ScaleLoop(low, high, FSub(high, low))])

\* UniformFloat::sample with the generator's fraction bits k.
UniformFloat_sample(self, k) ==
    LET value1_2 == Pack(0, Bias, k)
        value0_1 == FSub(value1_2, One)
    IN  FAdd(FMul(value0_1, self.scale), self.low)

UniformMyF_new(low, high, strict) == UniformFloat_new(low.value, high.value, strict)

UniformMyF_new_inclusive(low, high, strict) == UniformMyF_new(low, high, strict)

UniformMyF_sample(self, k) == [value |-> UniformFloat_sample(self, k)]

\* ------------------------------------------------------------------------
\* The program
\* ------------------------------------------------------------------------

\* The floats handed to new, to try_new and to the operators.
Inputs == {QNaN, PosInf, NegInf, PosZero, NegZero, One, FromNat(2),
           FromNat(3), FromNat(5), FromNat(18), MaxFinite, MinSubnormal}

\* A NaN with its sign bit set and another payload.
NegNaN == Pack(1, ExpMax, 1)

\* The f64 values handed to from_f64 and borrowed from, and the values found
\* in encoded input.
Inputs64 == {NegNaN, PosInf, NegZero, FromNat(3)}

\* The f32 values handed to from_f32: a NaN, the infinity, the smallest
\* subnormal and 1.0.
Inputs32 == {(2^ExpBits32 - 1) * 2^ManBits32 + 1,
             (2^ExpBits32 - 1) * 2^ManBits32,
             1,
             (2^(ExpBits32 - 1) - 1) * 2^ManBits32}

\* The fraction bits the generator hands to sample: none, the lowest, the
\* highest alone, and all of them.
SampleBits == {0, 1, ManSize \div 2, ManSize - 1}

Tokens == {FloatToken(v) : v \in Inputs64} \cup {UnitToken}

\* Operations on computed values (operators, samplers) in one run; once they
\* are used up the run makes no new wrapper from a float, it only reads,
\* encodes, decodes and samples.
MaxOps == 1

VARIABLES
    chk,      \* the checker C the wrappers are instantiated with
    debug,    \* whether debug assertions are compiled in
    a,        \* a wrapper variable (None before it is bound)
    b,        \* the wrapper of the second operand, once one was made
    sampler,  \* a uniform sampler, while one is in use
    last,     \* the last call: its name, arguments, outcome, results
    nops,     \* operations on computed values so far
    pc,       \* "run", "sampling" or "panicked"
    mem,      \* the floats in storage, by address
    ref       \* a reference borrowed(&v) and the like returned, while it lives

vars == <<chk, debug, a, b, sampler, last, nops, pc, mem, ref>>

Rec(op, x, out, r) == [op |-> op, x |-> x, out |-> out, r |-> r]

Init ==
    /\ chk \in Checkers
    /\ debug \in BOOLEAN
    /\ a = None
    /\ b = None
    /\ sampler = None
    /\ last = Rec("init", <<>>, "ok", <<>>)
    /\ nops = 0
    /\ pc = "run"
    /\ mem = Holding(PosZero)
    /\ ref = None

\* A call panicked: the stack unwinds and the wrappers in scope are gone.
Panicked(op, x, r) ==
    /\ pc' = "panicked"
    /\ last' = Rec(op, x, "panic", r)
    /\ a' = None
    /\ b' = None
    /\ sampler' = None
    /\ UNCHANGED <<mem, ref, chk, debug, nops>>

\* let a = <constructor call>, with its result res (a is None on an error).
Construct(op, x, res) ==
    /\ pc = "run"
    /\ nops < MaxOps \/ op = "deserialize"
    /\ IF res.tag = "panic" THEN Panicked(op, x, <<>>)
       ELSE /\ a' = IF res.tag = "ok" THEN Some(res.w) ELSE None
            /\ last' = Rec(op, x, res.tag,
                           IF res.tag = "ok" THEN <<res.w.value>> ELSE <<>>)
            /\ UNCHANGED <<mem, ref, chk, debug, b, sampler, nops, pc>>

New(v) == Construct("new", <<v>>, new(chk, debug, v))

\* let a = try_new(v)
TryNew(v) ==
    /\ pc = "run"
    /\ nops < MaxOps
    /\ LET res == try_new(chk, v)
       IN  /\ a' = res
           /\ last' = Rec("try_new", <<v>>, IF res = None THEN "none" ELSE "some",
                          IF res = None THEN <<>> ELSE <<res[1].value>>)
    /\ UNCHANGED <<mem, ref, chk, debug, b, sampler, nops, pc>>

\* let a = *borrowed(&v), or *borrowed_mut(&mut v), for a float v = x
Borrowed(x, mut) ==
    LET res == IF mut THEN borrowed_mut(chk, debug, Holding(x), "v")
               ELSE borrowed(chk, debug, Holding(x), "v")
    IN  Construct(IF mut THEN "borrowed_mut" ELSE "borrowed", <<x>>,
                  IF res.tag = "ok" THEN Ok(deref(Holding(x), res.w)) ELSE res)

\* let a = try_borrowed(&v).copied(), or try_borrowed_mut(&mut v).copied()
TryBorrowed(x, mut) ==
    /\ pc = "run"
    /\ nops < MaxOps
    /\ LET got == IF mut THEN try_borrowed_mut(chk, Holding(x), "v")
                  ELSE try_borrowed(chk, Holding(x), "v")
           res == IF got = None THEN None ELSE Some(deref(Holding(x), got[1]))
           op  == IF mut THEN "try_borrowed_mut" ELSE "try_borrowed"
       IN  /\ a' = res
           /\ last' = Rec(op, <<x>>, IF res = None THEN "none" ELSE "some",
                          IF res = None THEN <<>> ELSE <<res[1].value>>)
    /\ UNCHANGED <<mem, ref, chk, debug, b, sampler, nops, pc>>

\* let a = NoisyFloat::try_from(v), a stays unbound on an error
TryFrom(v) == Construct("try_from", <<v>>, try_from(chk, v))

FromF32(v) == Construct("from_f32", <<v>>, from_f32(chk, debug, v))

FromF64(v) == Construct("from_f64", <<v>>, from_f64(chk, debug, v))

Default == Construct("default", <<>>, default(chk, debug))

\* What a decoder may be handed: foreign input, or what was just encoded.
Wire == Tokens \cup (IF last.op = "serialize" THEN {last.r[1]} ELSE {})

Deserialize(tok) == Construct("deserialize", <<tok>>, deserialize(chk, debug, tok))

\* a = a op new(v), or a op= new(v).
Arith(op, v) ==
    /\ pc = "run"
    /\ nops < MaxOps
    /\ a # None
    /\ LET rhs == new(chk, debug, v)
       IN  IF rhs.tag = "panic" THEN Panicked("new", <<v>>, <<>>)
           ELSE LET res == arith(chk, debug, op, a[1], rhs.w)
                    x   == <<a[1].value, v>>
                    nat == native(op, a[1].value, v)
                IN  IF res.tag = "panic" THEN Panicked(op, x, <<nat>>)
                    ELSE /\ a' = Some(res.w)
                         /\ b' = Some(rhs.w)
                         /\ nops' = nops + 1
                         /\ last' = Rec(op, x, "ok", <<nat, res.w.value>>)
                         /\ UNCHANGED <<mem, ref, chk, debug, sampler, pc>>

\* a = -a
Neg ==
    /\ pc = "run"
    /\ nops < MaxOps
    /\ a # None
    /\ LET res == neg(chk, debug, a[1])
           x   == <<a[1].value>>
           nat == FNeg(a[1].value)
       IN  IF res.tag = "panic" THEN Panicked("neg", x, <<nat>>)
           ELSE /\ a' = Some(res.w)
                /\ nops' = nops + 1
                /\ last' = Rec("neg", x, "ok", <<nat, res.w.value>>)
                /\ UNCHANGED <<mem, ref, chk, debug, b, sampler, pc>>

\* a.raw() and f64::from(a)
Raw ==
    /\ pc = "run"
    /\ a # None
    /\ last' = Rec("raw", <<a[1].value>>, "ok", <<raw(a[1]), into_float(a[1])>>)
    /\ UNCHANGED <<mem, ref, chk, debug, a, b, sampler, nops, pc>>

Serialize ==
    /\ pc = "run"
    /\ a # None
    /\ last' = Rec("serialize", <<a[1].value>>, "ok", <<serialize(a[1])>>)
    /\ UNCHANGED <<mem, ref, chk, debug, a, b, sampler, nops, pc>>

\* The releases of rand that differ on the bounds a and v: they differ only
\* on a range whose width overflows.
RandReleases(v) ==
    IF a # None /\ ~is_finite(FSub(v, a[1].value)) THEN BOOLEAN ELSE {FALSE}

\* Uniform::new(a, new(v)) or Uniform::new_inclusive(a, new(v)).
UniformNew(v, inclusive, strict) ==
    /\ pc = "run"
    /\ nops < MaxOps
    /\ a # None
    /\ LET high == new(chk, debug, v)
       IN  IF high.tag = "panic" THEN Panicked("new", <<v>>, <<>>)
           ELSE LET res == IF inclusive
                           THEN UniformMyF_new_inclusive(a[1], high.w, strict)
                           ELSE UniformMyF_new(a[1], high.w, strict)
                    op  == IF inclusive THEN "uniform_new_inclusive" ELSE "uniform_new"
                    x   == <<a[1].value, v>>
                IN  IF res.tag = "panic" THEN Panicked(op, x, <<>>)
                    ELSE /\ b' = Some(high.w)
                         /\ nops' = nops + 1
                         /\ sampler' = Some(res.w)
                         /\ pc' = "sampling"
                         /\ last' = Rec(op, x, "ok", <<>>)
                         /\ UNCHANGED <<mem, ref, chk, debug, a>>

\* let a = sampler.sample(rng); the bounds it was made of stay in last.x.
Sample(k) ==
    /\ pc = "sampling"
    /\ LET w == UniformMyF_sample(sampler[1], k)
       IN  /\ a' = Some(w)
           /\ last' = Rec("sample", last.x, "ok", <<w.value>>)
    /\ UNCHANGED <<mem, ref, chk, debug, b, sampler, nops, pc>>

DropSampler ==
    /\ pc = "sampling"
    /\ sampler' = None
    /\ pc' = "run"
    /\ UNCHANGED <<mem, ref, chk, debug, a, b, last, nops>>

Next ==
    \/ \E v \in Inputs : New(v)
    \/ \E v \in Inputs : TryNew(v)
    \/ \E v \in Inputs64, mut \in BOOLEAN : Borrowed(v, mut)
    \/ \E v \in Inputs64, mut \in BOOLEAN : TryBorrowed(v, mut)
    \/ \E v \in Inputs64 : TryFrom(v)
    \/ \E v \in Inputs32 : FromF32(v)
    \/ \E v \in Inputs64 : FromF64(v)
    \/ Default
    \/ \E tok \in Wire : Deserialize(tok)
    \/ \E op \in ArithOps, v \in Inputs : Arith(op, v)
    \/ Neg
    \/ Raw
    \/ Serialize
    \/ \E v \in Inputs, inclusive \in BOOLEAN :
          \E strict \in RandReleases(v) : UniformNew(v, inclusive, strict)
    \/ \E k \in SampleBits : Sample(k)
    \/ DropSampler

Spec == Init /\ [][Next]_vars

\* ------------------------------------------------------------------------
\* The checkers on their own: check applied to every bit pattern
\* ------------------------------------------------------------------------

Check(v) ==
    /\ pc = "run"
    /\ last' = Rec("check", <<v>>, "ok", <<check(chk, v)>>)
    /\ UNCHANGED <<mem, ref, chk, debug, a, b, sampler, nops, pc>>

NextCheck == \E v \in Floats : Check(v)

SpecCheck == Init /\ [][NextCheck]_vars

\* ------------------------------------------------------------------------
\* References: a float variable v, borrowed as a wrapper in place
\* ------------------------------------------------------------------------

\* What is in storage, as a call record keeps it.
Stored(m) == <<m["v"], m["tmp"]>>

\* v = x, while nothing borrows v
Assign(x) ==
    /\ pc = "run"
    /\ ref = None
    /\ mem' = [mem EXCEPT !["v"] = x]
    /\ last' = Rec("assign", <<x>>, "ok", Stored(mem'))
    /\ UNCHANGED <<ref, chk, debug, a, b, sampler, nops, pc>>

\* let r = borrowed(&v), or borrowed_mut(&mut v)
BorrowRef(mut) ==
    /\ pc = "run"
    /\ ref = None
    /\ LET res == IF mut THEN borrowed_mut(chk, debug, mem, "v")
                  ELSE borrowed(chk, debug, mem, "v")
           op  == IF mut THEN "borrowed_mut" ELSE "borrowed"
       IN  IF res.tag = "panic" THEN Panicked(op, Stored(mem), Stored(mem))
           ELSE /\ ref' = Some([ptr |-> res.w, mut |-> mut])
                /\ last' = Rec(op, Stored(mem), "ok", Stored(mem))
                /\ UNCHANGED <<mem, chk, debug, a, b, sampler, nops, pc>>

\* if let Some(r) = try_borrowed(&v), or try_borrowed_mut(&mut v)
TryBorrowRef(mut) ==
    /\ pc = "run"
    /\ ref = None
    /\ LET got == IF mut THEN try_borrowed_mut(chk, mem, "v")
                  ELSE try_borrowed(chk, mem, "v")
           op  == IF mut THEN "try_borrowed_mut" ELSE "try_borrowed"
       IN  /\ ref' = IF got = None THEN None ELSE Some([ptr |-> got[1], mut |-> mut])
           /\ last' = Rec(op, Stored(mem), IF got = None THEN "none" ELSE "some",
                          Stored(mem))
    /\ UNCHANGED <<mem, chk, debug, a, b, sampler, nops, pc>>

\* let a = *r
ReadRef ==
    /\ pc = "run"
    /\ ref # None
    /\ a' = Some(deref(mem, ref[1].ptr))
    /\ last' = Rec("read", Stored(mem), "ok", Stored(mem))
    /\ UNCHANGED <<mem, ref, chk, debug, b, sampler, nops, pc>>

\* *r = NoisyFloat::new(x), through a mutable reference
WriteRef(x) ==
    /\ pc = "run"
    /\ ref # None
    /\ ref[1].mut
    /\ LET res == new(chk, debug, x)
       IN  IF res.tag = "panic" THEN Panicked("new", <<x>>, <<>>)
           ELSE /\ mem' = [mem EXCEPT ![ref[1].ptr] = res.w.value]
                /\ last' = Rec("write", <<x>>, "ok", Stored(mem'))
                /\ UNCHANGED <<ref, chk, debug, a, b, sampler, nops, pc>>

\* r goes out of scope
EndBorrow ==
    /\ pc = "run"
    /\ ref # None
    /\ ref' = None
    /\ last' = Rec("drop", Stored(mem), "ok", Stored(mem))
    /\ UNCHANGED <<mem, chk, debug, a, b, sampler, nops, pc>>

NextBorrow ==
    \/ \E x \in Inputs : Assign(x)
    \/ \E mut \in BOOLEAN : BorrowRef(mut)
    \/ \E mut \in BOOLEAN : TryBorrowRef(mut)
    \/ ReadRef
    \/ \E x \in Inputs : WriteRef(x)
    \/ EndBorrow

SpecBorrow == Init /\ [][NextBorrow]_vars

\* ------------------------------------------------------------------------
\* Comparison, min/max and hashing of two valid wrappers
\* ------------------------------------------------------------------------

\* The wrappers new hands out for the floats of S in a checked build.
Wrappers(C, S) ==
    {new(C, TRUE, v).w : v \in {u \in S : new(C, TRUE, u).tag = "ok"}}

InitOrd ==
    /\ chk \in Checkers
    /\ debug = TRUE
    /\ a \in {Some(w) : w \in Wrappers(chk, Floats)}
    /\ b \in {Some(w) : w \in Wrappers(chk, Inputs)}
    /\ sampler = None
    /\ last = Rec("init", <<>>, "ok", <<>>)
    /\ nops = 0
    /\ pc = "run"
    /\ mem = Holding(PosZero)
    /\ ref = None

Observe(op, r) ==
    /\ pc = "run"
    /\ last' = Rec(op, <<a[1].value, b[1].value>>, "ok", r)
    /\ UNCHANGED <<mem, ref, chk, debug, a, b, sampler, nops, pc>>

\* a.cmp(&b), b.cmp(&a), a == b, a < b
Compare ==
    Observe("cmp", <<cmp(a[1], b[1]), cmp(b[1], a[1]), eq(a[1], b[1]), lt(a[1], b[1])>>)

\* a.min(b), a.max(b), b.min(a), b.max(a)
MinMax ==
    Observe("minmax", <<min(a[1], b[1]).value, max(a[1], b[1]).value,
                        min(b[1], a[1]).value, max(b[1], a[1]).value>>)

\* a.hash(..), b.hash(..)
Hash == Observe("hash", <<hash(a[1]), hash(b[1])>>)

NextOrd == Compare \/ MinMax \/ Hash

SpecOrd == InitOrd /\ [][NextOrd]_vars

\* ------------------------------------------------------------------------
\* Properties
\* ------------------------------------------------------------------------

\* The checker's assert is compiled in.
Enforcing == chk.always \/ debug

\* Readings of the bit pattern that do not go through the float predicates.
BitsNaN(v) == MagOf(v) > MagOf(PosInf)

BitsInfinite(v) == v \in {PosInf, NegInf}

BitsFinite(v) == MagOf(v) < MagOf(PosInf)

\* C1: with enforcement active, after any sequence of public operations
\* every wrapper that exists (the variables a and b, and what the last call
\* returned) holds a value its checker's check accepts.
C1_EveryWrapperValid ==
    Enforcing =>
        /\ a # None => check(chk, a[1].value)
        /\ b # None => check(chk, b[1].value)

\* C2: try_new(v) never panics, is Some(w) with w.raw() = v exactly when
\* check(v) holds and None otherwise; NaN gives None under every checker,
\* -infinity gives None under FiniteChecker and Some(-infinity) under NumChecker.
C2_TryNew ==
    last.op = "try_new" =>
        LET v == last.x[1]
        IN  /\ pc = "run"
            /\ last.out \in {"some", "none"}
            /\ (last.out = "some") <=> check(chk, v)
            /\ last.out = "some" => a # None /\ raw(a[1]) = v
            /\ last.out = "none" => a = None
            /\ BitsNaN(v) => last.out = "none"
            /\ (v = NegInf /\ chk = FiniteChecker) => last.out = "none"
            /\ (v = NegInf /\ chk = NumChecker) =>
                  last.out = "some" /\ a # None /\ a[1].value = NegInf

C2_Witness ==
    /\ last.op = "try_new" /\ last.x[1] = NegInf
    /\ chk = NumChecker /\ last.out = "some" /\ a = Some([value |-> NegInf])

\* C3: for every finite v and each shipped checker new(v) succeeds and raw
\* (and the conversion into the native float) gives back v bit for bit; for
\* a v its checker rejects, new(v) under active enforcement panics and no
\* wrapper comes back.
C3_NewRoundTrip ==
    /\ (last.op = "new" /\ BitsFinite(last.x[1]) /\ chk \in {NumChecker, FiniteChecker}) =>
          /\ last.out = "ok"
          /\ a # None
          /\ to_bits(raw(a[1])) = to_bits(last.x[1])
          /\ to_bits(into_float(a[1])) = to_bits(last.x[1])
    /\ (last.op = "new" /\ ~check(chk, last.x[1]) /\ Enforcing) =>
          last.out = "panic" /\ pc = "panicked" /\ a = None
    /\ (last.op = "new" /\ last.out = "ok") => a # None /\ raw(a[1]) = last.x[1]
    /\ last.op = "raw" => last.r = <<last.x[1], last.x[1]>> /\ a[1].value = last.x[1]

C3_Witness ==
    /\ last.op = "new" /\ last.x[1] = NegZero /\ last.out = "ok"
    /\ a = Some([value |-> NegZero])

\* C4: no checker accepts a NaN; FiniteChecker rejects both infinities and
\* accepts every finite value; NumChecker accepts both infinities and every
\* finite value.
C4_Check ==
    last.op = "check" =>
        LET v == last.x[1]
            r == last.r[1]
        IN  /\ BitsNaN(v) => r = FALSE
            /\ chk = FiniteChecker => (r <=> BitsFinite(v))
            /\ chk = NumChecker => (r <=> (BitsFinite(v) \/ BitsInfinite(v)))

C4_Witness ==
    /\ last.op = "check" /\ last.x[1] = NegInf
    /\ chk = FiniteChecker /\ last.r[1] = FALSE

\* The division a / b of two values NumChecker accepts, with enforcement on.
NumDivision ==
    /\ last.op = "div" /\ chk = NumChecker /\ Enforcing
    /\ check(chk, last.x[1]) /\ check(chk, last.x[2])

\* C5 as stated: the only division of two valid NumChecker operands that
\* fails enforcement is zero divided by zero.
C5_OnlyZeroByZeroFails ==
    NumDivision =>
        ((last.out = "panic") <=> (IsZero(last.x[1]) /\ IsZero(last.x[2])))

\* C5 amended: a / b of two valid NumChecker operands is a valid (possibly
\* infinite) wrapper unless both are zero or both are infinite, and in just
\* those two cases it fails enforcement.
C5_DivisionClosure ==
    NumDivision =>
        /\ (last.out = "panic") <=>
              \/ IsZero(last.x[1]) /\ IsZero(last.x[2])
              \/ BitsInfinite(last.x[1]) /\ BitsInfinite(last.x[2])
        /\ last.out = "panic" => BitsNaN(last.r[1]) /\ a = None
        /\ last.out # "panic" =>
              /\ last.out = "ok"
              /\ a # None /\ ~BitsNaN(a[1].value) /\ check(chk, a[1].value)

C5_Witness ==
    /\ NumDivision /\ last.out = "panic"
    /\ last.x = <<PosInf, NegInf>>

\* C6: every operator computes the native operation on the unwrapped
\* operands and passes the result through enforcement: with enforcement
\* active it panics exactly when the native result is invalid and otherwise
\* holds exactly that result; 0/0 panics under NumChecker and FiniteChecker,
\* 1/0 panics under FiniteChecker and is +infinity under NumChecker,
\* 1 + 2 is 3 and 18 % 5 is 3.
C6_Operators ==
    (last.op \in ArithOps \cup {"neg"} /\ Enforcing) =>
        LET x   == last.x[1]
            y   == IF last.op = "neg" THEN x ELSE last.x[2]
            nat == last.r[1]
            shipped == chk \in {NumChecker, FiniteChecker}
        IN  /\ (last.out = "panic") <=> ~check(chk, nat)
            /\ last.out \in {"ok", "panic"}
            /\ last.out = "ok" => a # None /\ a[1].value = nat
            /\ last.out = "panic" => a = None /\ pc = "panicked"
            /\ (last.op = "div" /\ IsZero(x) /\ IsZero(y) /\ shipped) =>
                  last.out = "panic"
            /\ (last.op = "div" /\ x = One /\ y = PosZero /\ chk = FiniteChecker) =>
                  last.out = "panic"
            /\ (last.op = "div" /\ x = One /\ y = PosZero /\ chk = NumChecker) =>
                  last.out = "ok" /\ a = Some([value |-> PosInf])
            /\ (last.op = "add" /\ x = One /\ y = FromNat(2)) =>
                  last.out = "ok" /\ a = Some([value |-> FromNat(3)])
            /\ (last.op = "rem" /\ x = FromNat(18) /\ y = FromNat(5)) =>
                  last.out = "ok" /\ a = Some([value |-> FromNat(3)])
            /\ (last.op = "neg" /\ x = FromNat(3)) =>
                  last.out = "ok" /\ a = Some([value |-> Pack(1, ExpOf(x), ManOf(x))])

C6_Witness ==
    /\ last.op = "rem" /\ last.x = <<FromNat(18), FromNat(5)>>
    /\ Enforcing /\ chk = FiniteChecker
    /\ last.out = "ok" /\ a = Some([value |-> FromNat(3)])

\* C7: two valid wrappers that are equal feed the hasher the same bytes;
\* every value but -0.0 is hashed as its bit pattern, and -0.0 as the bit
\* pattern of +0.0.
C7_HashConsistentWithEq ==
    last.op = "hash" =>
        LET x == last.x[1]
            y == last.x[2]
        IN  /\ eq([value |-> x], [value |-> y]) => last.r[1] = last.r[2]
            /\ (Key(x) = Key(y)) => last.r[1] = last.r[2]
            /\ x # NegZero => last.r[1] = Bytes(x)
            /\ x = NegZero => last.r[1] = Bytes(PosZero)
            /\ y # NegZero => last.r[2] = Bytes(y)
            /\ y = NegZero => last.r[2] = Bytes(PosZero)

C7_Witness ==
    /\ last.op = "hash" /\ last.x = <<NegZero, PosZero>>
    /\ last.r[1] = last.r[2]

\* The valid floats a third operand is taken from.
Thirds == {w.value : w \in Wrappers(chk, Inputs)}

\* C8: the order on valid wrappers is total (exactly one of <, ==, > holds,
\* it is antisymmetric and transitive), agrees with the native comparison,
\* has -infinity least and +infinity greatest and +0 equal to -0; min and
\* max delegate to Ord and return an operand that is <= respectively >=
\* both operands, ties included.
C8_TotalOrderMinMax ==
    /\ last.op = "cmp" =>
          LET x == last.x[1]
              y == last.x[2]
              c == last.r[1]
              d == last.r[2]
          IN  /\ c \in {"Less", "Equal", "Greater"}
              /\ (c = "Less") <=> (Key(x) < Key(y))
              /\ (c = "Equal") <=> (Key(x) = Key(y))
              /\ (c = "Greater") <=> (Key(x) > Key(y))
              /\ (c = "Less") <=> (d = "Greater")
              /\ (c = "Equal") <=> (d = "Equal")
              /\ last.r[3] <=> (c = "Equal")
              /\ last.r[4] <=> (c = "Less")
              /\ \A z \in Thirds :
                    (c # "Greater" /\ cmp([value |-> y], [value |-> z]) # "Greater")
                       => cmp([value |-> x], [value |-> z]) # "Greater"
              /\ x = NegInf => c # "Greater"
              /\ x = PosInf => c # "Less"
              /\ (IsZero(x) /\ IsZero(y)) => c = "Equal"
    /\ last.op = "minmax" =>
          LET x  == last.x[1]
              y  == last.x[2]
              mn == last.r[1]
              mx == last.r[2]
          IN  /\ mn \in {x, y} /\ mx \in {x, y}
              /\ Key(mn) <= Key(x) /\ Key(mn) <= Key(y)
              /\ Key(mx) >= Key(x) /\ Key(mx) >= Key(y)
              /\ mn = Ord_min([value |-> x], [value |-> y]).value
              /\ mx = Ord_max([value |-> x], [value |-> y]).value
              /\ Key(last.r[3]) = Key(mn) /\ Key(last.r[4]) = Key(mx)

C8_Witness ==
    /\ last.op = "minmax" /\ last.x = <<NegZero, PosZero>>
    /\ last.r[1] = NegZero /\ last.r[2] = PosZero

\* C9: a sample drawn between two valid bounds lo <= hi lies in [lo, hi] and
\* is valid under the checker, whatever the checker.
C9_SampleValid ==
    (last.op = "sample" /\ check(chk, last.x[1]) /\ check(chk, last.x[2])) =>
        /\ FLe(last.x[1], last.r[1]) /\ FLe(last.r[1], last.x[2])
        /\ check(chk, last.r[1])
        /\ a # None /\ check(chk, a[1].value)

\* C10 as stated: decoding a value the checker rejects fails instead of
\* producing a wrapper.
C10_InvalidNeverDecodes ==
    (last.op = "deserialize" /\ last.x[1].t = "float"
        /\ ~check(chk, last.x[1].v)) =>
            last.out \in {"panic", "err"} /\ a = None

\* C10 amended: serialize writes exactly the raw value; deserialize reads a
\* raw value and hands it to new, so a valid wrapper that is encoded and
\* decoded comes back equal; an encoded value the checker rejects panics when
\* enforcement is active (it is never reported as an error) and, with a
\* debug-only assert compiled out, comes back as a wrapper holding it.
C10_SerdeRoundTrip ==
    /\ last.op = "serialize" =>
          /\ last.r[1] = [t |-> "float", v |-> last.x[1]]
          /\ a # None /\ a[1].value = last.x[1]
          /\ check(chk, last.x[1]) =>
                LET back == deserialize(chk, debug, last.r[1])
                IN  back.tag = "ok" /\ eq(back.w, a[1]) /\ back.w.value = a[1].value
    /\ last.op = "deserialize" =>
          LET tok == last.x[1]
          IN  /\ tok.t # "float" => last.out = "err" /\ a = None
              /\ (tok.t = "float" /\ check(chk, tok.v)) =>
                    last.out = "ok" /\ a = Some([value |-> tok.v])
              /\ (tok.t = "float" /\ ~check(chk, tok.v) /\ Enforcing) =>
                    last.out = "panic" /\ a = None /\ pc = "panicked"
              /\ (tok.t = "float" /\ ~check(chk, tok.v) /\ ~Enforcing) =>
                    last.out = "ok" /\ a = Some([value |-> tok.v])

C10_Witness ==
    /\ last.op = "deserialize" /\ last.x[1] = [t |-> "float", v |-> FromNat(18)]
    /\ last.out = "ok" /\ a = Some([value |-> FromNat(18)])

\* The calls that enforce with C::assert on the float they are handed.
AssertingOps == {"new", "borrowed", "borrowed_mut", "from_f64"}

\* The calls that report an invalid float instead of enforcing.
FallibleOps == {"try_new", "try_borrowed", "try_borrowed_mut", "try_from"}

\* C11: the enforcement mode changes the enforcing paths only.  An invalid
\* value handed to new (or produced by an operator) panics in every build
\* under a checker that asserts always; under a debug-only checker it panics
\* exactly when debug assertions are compiled in, and without them the
\* wrapper comes back holding the invalid value; try_new, try_borrowed,
\* try_borrowed_mut and try_from give None or an error for an invalid value
\* in every mode and build, and never panic.
C11_ModeOnlyOnEnforcingPaths ==
    /\ (last.op \in AssertingOps /\ ~check(chk, last.x[1])) =>
          /\ chk.always => last.out = "panic" /\ pc = "panicked" /\ a = None
          /\ ~chk.always => ((last.out = "panic") <=> debug)
          /\ (~chk.always /\ ~debug) =>
                /\ last.out = "ok" /\ pc = "run"
                /\ a # None /\ to_bits(raw(a[1])) = to_bits(last.x[1])
    /\ (last.op \in ArithOps \cup {"neg"} /\ ~check(chk, last.r[1])) =>
          /\ chk.always => last.out = "panic" /\ pc = "panicked" /\ a = None
          /\ ~chk.always => ((last.out = "panic") <=> debug)
          /\ (~chk.always /\ ~debug) =>
                last.out = "ok" /\ a # None /\ raw(a[1]) = last.r[1]
    /\ last.op \in FallibleOps =>
          /\ pc = "run"
          /\ last.out \in {"some", "none", "ok", "err"}
          /\ (last.out \in {"none", "err"}) <=> ~check(chk, last.x[1])
          /\ ~check(chk, last.x[1]) => a = None
          /\ check(chk, last.x[1]) => a # None /\ raw(a[1]) = last.x[1]
          /\ last.op = "try_from" => last.out \in {"ok", "err"}
          /\ last.op # "try_from" => last.out \in {"some", "none"}

C11_Witness ==
    /\ chk = NumChecker /\ ~debug
    /\ last.op = "new" /\ BitsNaN(last.x[1])
    /\ last.out = "ok" /\ a = Some([value |-> last.x[1]])

\* C12: borrowed(&v) and borrowed_mut(&mut v) enforce the checker on the
\* float v holds and return a reference to v's own storage: the wrapper
\* behind it equals v, storage is as it was before the call, and a write
\* through the borrowed_mut reference shows in v; try_borrowed and
\* try_borrowed_mut give Some(reference to v) exactly when check(v) holds and
\* None otherwise, never panic, and leave storage as it was.
C12_BorrowInPlace ==
    /\ last.op \in {"borrowed", "borrowed_mut"} =>
          LET x == last.x[1]
          IN  /\ Stored(mem) = last.x
              /\ (last.out = "panic") <=> (Enforcing /\ ~check(chk, x))
              /\ last.out = "panic" => pc = "panicked"
              /\ last.out # "panic" =>
                    /\ last.out = "ok"
                    /\ ref = Some([ptr |-> "v", mut |-> (last.op = "borrowed_mut")])
                    /\ to_bits(raw(deref(mem, ref[1].ptr))) = to_bits(x)
                    /\ check(chk, x) => eq(deref(mem, ref[1].ptr), [value |-> x])
    /\ last.op \in {"try_borrowed", "try_borrowed_mut"} =>
          LET x == last.x[1]
          IN  /\ Stored(mem) = last.x
              /\ pc = "run"
              /\ last.out \in {"some", "none"}
              /\ (last.out = "some") <=> check(chk, x)
              /\ last.out = "none" => ref = None
              /\ last.out = "some" =>
                    /\ ref = Some([ptr |-> "v", mut |-> (last.op = "try_borrowed_mut")])
                    /\ eq(deref(mem, ref[1].ptr), [value |-> x])
    /\ (last.op = "write" /\ last.out = "ok") =>
          /\ ref # None /\ ref[1].mut
          /\ mem["v"] = last.x[1]
          /\ raw(deref(mem, ref[1].ptr)) = last.x[1]
    /\ last.op = "read" =>
          a = Some([value |-> mem["v"]])

C12_Witness ==
    /\ last.op = "write" /\ last.out = "ok" /\ last.x[1] = FromNat(5)
    /\ chk = FiniteChecker /\ ref = Some([ptr |-> "v", mut |-> TRUE])
    /\ mem["v"] = FromNat(5)
====
